---- MODULE Spec2Model ----
(***************************************************************************)
(* A model of swapout.c: the controller that pushes a process into swap by *)
(* moving it into a per-pid cgroup with a low memory ceiling, polling its  *)
(* resident size, then restoring the ceiling and removing the group.       *)
(*                                                                         *)
(* Text (file contents, option arguments) is a sequence of one-character   *)
(* strings, so that rtrim, strtol and the "%lld\n" formatting are computed *)
(* as the code computes them.  The interval, a double in the code, is kept *)
(* in milliseconds.                                                        *)
(***************************************************************************)
EXTENDS Integers, Sequences, FiniteSets, TLC

(* ------------------------------ bounds -------------------------------- *)

\* largest value given to --max-iter on the command line
MaxIterArg == 3

\* longest list of options on the command line
MaxOpts == 2

(* ------------------------- program constants -------------------------- *)

CGROUP_NONE == 0
CGROUP_V1 == 1
CGROUP_V2 == 2

DefaultLimitMb == 8
DefaultTargetRssKb == 16384
DefaultIntervalMs == 1000
DefaultMaxIter == 60

\* sizeof fallback in restore_limit
FallbackSize == 16

\* the exit status seen when the overflow of fallback reaches main's frame:
\* the character '7' of the text copied
ClobberedStatus == 55

\* sizeof backup_limit, sizeof tmp in restore_limit, sizeof buf in apply_low_limit
BackupSize == 128
TmpSize == 128
BufSize == 64

(* ------------------------------- text --------------------------------- *)

Digits == <<"0", "1", "2", "3", "4", "5", "6", "7", "8", "9">>

IsDigit(c) == \E i \in 1..10 : Digits[i] = c

DigitVal(c) == (CHOOSE i \in 1..10 : Digits[i] = c) - 1

\* characters <= 0x20 that occur in the model's texts
IsSpace(c) == c \in {" ", "\n", "\t"}

RECURSIVE ToDecimal(_)
\* printf("%d") / printf("%lld") of a non-negative number
ToDecimal(n) ==
    IF n < 10 THEN <<Digits[n + 1]>>
    ELSE ToDecimal(n \div 10) \o <<Digits[(n % 10) + 1]>>

RECURSIVE DigitRun(_, _)
\* the value of the leading run of digits of s, continuing from acc
DigitRun(s, acc) ==
    IF s = <<>> \/ ~IsDigit(Head(s)) THEN acc
    ELSE DigitRun(Tail(s), 10 * acc + DigitVal(Head(s)))

RECURSIVE SkipSpace(_)
SkipSpace(s) == IF s # <<>> /\ IsSpace(Head(s)) THEN SkipSpace(Tail(s)) ELSE s

\* strtol(s, NULL, 10) and atoi(s): leading blanks, an optional sign, digits
Strtol(s) ==
    LET t == SkipSpace(s) IN
    IF t = <<>> THEN 0
    ELSE IF Head(t) = "-" THEN 0 - DigitRun(Tail(t), 0)
    ELSE IF Head(t) = "+" THEN DigitRun(Tail(t), 0)
    ELSE DigitRun(t, 0)

RECURSIVE DropDigits(_)
DropDigits(s) == IF s # <<>> /\ IsDigit(Head(s)) THEN DropDigits(Tail(s)) ELSE s

RECURSIVE FracMs(_, _)
\* the first three fractional digits of s, as milliseconds
FracMs(s, k) ==
    IF k = 0 THEN 0
    ELSE IF s = <<>> \/ ~IsDigit(Head(s)) THEN 0
    ELSE DigitVal(Head(s)) * (IF k = 3 THEN 100 ELSE IF k = 2 THEN 10 ELSE 1)
         + FracMs(Tail(s), k - 1)

\* atof(s), in milliseconds
AtofMs(s) ==
    LET t == SkipSpace(s)
        neg == t # <<>> /\ Head(t) = "-"
        u == IF t # <<>> /\ Head(t) \in {"-", "+"} THEN Tail(t) ELSE t
        whole == DigitRun(u, 0)
        rest == DropDigits(u)
        frac == IF rest # <<>> /\ Head(rest) = "." THEN FracMs(Tail(rest), 3) ELSE 0
        ms == 1000 * whole + frac
    IN IF neg THEN 0 - ms ELSE ms

RECURSIVE rtrim(_)
\* rtrim: drop the trailing characters <= 0x20
rtrim(s) ==
    IF s # <<>> /\ IsSpace(s[Len(s)]) THEN rtrim(SubSeq(s, 1, Len(s) - 1)) ELSE s

IsPrefix(p, s) == Len(p) <= Len(s) /\ SubSeq(s, 1, Len(p)) = p

(* ------------------------------ inputs -------------------------------- *)

\* the pid of the target on the command line
TargetPidText == <<"1", "2", "3", "4">>

\* option arguments tried for -r and -n
TargetArgs == {<<"-", "1">>, <<"1", "2", "0", "0", "0">>}
MaxIterArgs == {<<"x">>} \cup {ToDecimal(n) : n \in 1..MaxIterArg}

\* one parsed command-line option as getopt_long returns it; "?" is what it
\* returns for an unknown option or a missing argument
OptionTokens ==
    [o : {"r"}, a : TargetArgs] \cup [o : {"n"}, a : MaxIterArgs]
    \cup [o : {"q", "h", "?"}, a : {<<>>}]

OptionLists == UNION {[1..k -> OptionTokens] : k \in 0..MaxOpts}

\* what follows the options: nothing, a pid that is not positive, the target
Positionals == {<<>>, <<<<"0">>>>, <<<<"a", "b", "c">>>>, <<TargetPidText>>}

\* resident and swapped sizes (kB) a live target's status file may show
RssValues == {12000, 20000}
SwapValues == {4096}

(* ------------------------------- state -------------------------------- *)

VARIABLES
    argv,       \* [opts, pos]: the command line, until getopt has consumed it
    pc,         \* main's position
    cfg,        \* limit_mb, target_rss_kb, interval, max_iter, quiet, pid
    ctx,        \* cgroup_ctx_t
    iter,       \* main's iter
    done,       \* main's done
    mi,         \* the last proc_meminfo_t read
    status,     \* the exit status, -1 while the process has not exited
    fs,         \* the cgroup filesystem: kind, limit, members
    target,     \* the target process: "alive", "zombie" (exited, not reaped), "gone"
    smashed,    \* restore_limit's strcpy has overwritten main's frame
    hist,       \* what the run has done so far (observation only)
    peer        \* a second invocation against the same pid: [pc, ctx, restored]

vars == <<argv, pc, cfg, ctx, iter, done, mi, status, fs, target, smashed, hist, peer>>

(* ---------------------------- filesystem ------------------------------ *)

RootDir == "/sys/fs/cgroup"
MemoryRoot == "/sys/fs/cgroup/memory"

BaseDir(ver) ==
    IF ver = CGROUP_V2 THEN "/sys/fs/cgroup/swapout" ELSE "/sys/fs/cgroup/memory/swapout"

\* snprintf(group_dir, "%s/%s", base, pid_str), for the one pid of the model
GroupDir(ver) ==
    IF ver = CGROUP_V2 THEN "/sys/fs/cgroup/swapout/1234"
    ELSE "/sys/fs/cgroup/memory/swapout/1234"

ProcsPath(ver) ==
    IF ver = CGROUP_V2 THEN "/sys/fs/cgroup/swapout/1234/cgroup.procs"
    ELSE "/sys/fs/cgroup/memory/swapout/1234/cgroup.procs"

LimitPath(ver) ==
    IF ver = CGROUP_V2 THEN "/sys/fs/cgroup/swapout/1234/memory.high"
    ELSE "/sys/fs/cgroup/memory/swapout/1234/memory.limit_in_bytes"

Versions == {CGROUP_V1, CGROUP_V2}
DirPaths == {RootDir, MemoryRoot} \cup {BaseDir(v) : v \in Versions}
            \cup {GroupDir(v) : v \in Versions}
GroupDirs == {GroupDir(v) : v \in Versions}
LimitPaths == {LimitPath(v) : v \in Versions}
ProcsPaths == {ProcsPath(v) : v \in Versions}

ParentDir(p) ==
    CASE p = MemoryRoot -> RootDir
      [] p = BaseDir(CGROUP_V2) -> RootDir
      [] p = BaseDir(CGROUP_V1) -> MemoryRoot
      [] p \in {GroupDir(CGROUP_V2), LimitPath(CGROUP_V2), ProcsPath(CGROUP_V2)} ->
            IF p = GroupDir(CGROUP_V2) THEN BaseDir(CGROUP_V2) ELSE GroupDir(CGROUP_V2)
      [] p \in {GroupDir(CGROUP_V1), LimitPath(CGROUP_V1), ProcsPath(CGROUP_V1)} ->
            IF p = GroupDir(CGROUP_V1) THEN BaseDir(CGROUP_V1) ELSE GroupDir(CGROUP_V1)
      [] OTHER -> RootDir

VersionOfGroup(g) == IF g = GroupDir(CGROUP_V2) THEN CGROUP_V2 ELSE CGROUP_V1

MaxText == <<"m", "a", "x">>

\* "9223372036854771712", the text of restore_limit's v1 fallback
V1MaxText ==
    <<"9", "2", "2", "3", "3", "7", "2", "0", "3", "6",
      "8", "5", "4", "7", "7", "1", "7", "1", "2">>

\* what the kernel shows in the limit file of a group it has just created
KernelDefaultLimit(ver) ==
    (IF ver = CGROUP_V2 THEN MaxText ELSE V1MaxText) \o <<"\n">>

\* limit files a group left behind by an earlier run may hold: the kernel's
\* default, a ceiling an administrator set, the 8 MB ceiling of a run that
\* never restored it
StaleLimits(ver) ==
    {KernelDefaultLimit(ver), ToDecimal(4194304) \o <<"\n">>,
     ToDecimal(DefaultLimitMb * 1024 * 1024) \o <<"\n">>}

NoDirs == [p \in DirPaths |-> "absent"]
NoLimits == [g \in GroupDirs |-> <<>>]
NoMembers == [g \in GroupDirs |-> FALSE]

\* the hosts a run may start on.  Only the hierarchy the run will use varies.
InitialFs ==
    LET hier(ver) ==
            {[kind |-> b, limit |-> NoLimits, members |-> NoMembers] :
                b \in {[NoDirs EXCEPT ![BaseDir(ver)] = k] : k \in {"absent", "file", "dir"}}}
            \cup
            {[kind |-> [NoDirs EXCEPT ![BaseDir(ver)] = "dir", ![GroupDir(ver)] = "dir"],
              limit |-> [NoLimits EXCEPT ![GroupDir(ver)] = l],
              members |-> NoMembers] : l \in StaleLimits(ver)}
        with(h, marker, root, mem) ==
            [marker |-> marker,
             kind |-> [h.kind EXCEPT ![RootDir] = root, ![MemoryRoot] = mem],
             limit |-> h.limit, members |-> h.members]
    IN  {with(h, TRUE, "dir", "absent") : h \in hier(CGROUP_V2)}
        \cup {with([kind |-> NoDirs, limit |-> NoLimits, members |-> NoMembers],
                   TRUE, "dir", "dir")}
        \cup {with(h, FALSE, "dir", mem) : h \in hier(CGROUP_V1), mem \in {"dir", "file"}}
        \cup {with([kind |-> NoDirs, limit |-> NoLimits, members |-> NoMembers],
                   FALSE, root, "absent") : root \in {"absent", "dir"}}

(* -------------------------------- Init -------------------------------- *)

\* no second invocation
NoPeer == [pc |-> "none", ctx |-> [ver |-> CGROUP_NONE, group_dir |-> "", procs_path |-> "",
                                  limit_path |-> "", backup_limit |-> <<>>, had_backup |-> 0],
           restored |-> FALSE]

ZeroCtx ==
    [ver |-> CGROUP_NONE, group_dir |-> "", procs_path |-> "", limit_path |-> "",
     backup_limit |-> <<>>, had_backup |-> 0]

DefaultCfg ==
    [limit_mb |-> DefaultLimitMb, target_rss_kb |-> DefaultTargetRssKb,
     interval |-> DefaultIntervalMs, max_iter |-> DefaultMaxIter, quiet |-> 0, pid |-> 0]

InitHist ==
    [calls |-> <<>>, samples |-> 0, sleeps |-> 0, hits |-> 0, stop |-> "none",
     cause |-> "none", warned |-> FALSE, limit0 |-> <<>>,
     tempWritten |-> FALSE, restoreWritten |-> FALSE, rejected |-> {},
     rmdir |-> "none"]

(* -------------------------- argument parsing -------------------------- *)

\* one pass of main's switch over the option getopt_long returned
OptionCase(c, t) ==
    CASE t.o = "m" ->
            LET v == Strtol(t.a) IN
            [c EXCEPT !.limit_mb = IF v <= 0 THEN DefaultLimitMb ELSE v]
      [] t.o = "r" ->
            LET v == Strtol(t.a) IN
            [c EXCEPT !.target_rss_kb = IF v <= 0 THEN DefaultTargetRssKb ELSE v]
      [] t.o = "i" ->
            LET v == AtofMs(t.a) IN
            [c EXCEPT !.interval = IF v <= 0 THEN DefaultIntervalMs ELSE v]
      [] t.o = "n" ->
            LET v == Strtol(t.a) IN
            [c EXCEPT !.max_iter = IF v <= 0 THEN DefaultMaxIter ELSE v]
      [] t.o = "q" -> [c EXCEPT !.quiet = 1]
      [] OTHER -> c

RECURSIVE GetoptLoop(_, _)
\* the while loop over getopt_long: [ret, cfg], ret = -1 when main goes on
GetoptLoop(opts, c) ==
    IF opts = <<>> THEN [ret |-> -1, cfg |-> c]
    ELSE IF Head(opts).o = "h" THEN [ret |-> 0, cfg |-> c]
    ELSE IF Head(opts).o = "?" THEN [ret |-> 1, cfg |-> c]
    ELSE GetoptLoop(Tail(opts), OptionCase(c, Head(opts)))

Consumed == [opts |-> <<>>, pos |-> <<>>]

Exit(code, cause) ==
    /\ pc' = "Exit"
    /\ status' = code
    /\ hist' = [hist EXCEPT !.cause = cause]

\* main, lines 358-414: options, then the pid
ParseArgs ==
    /\ pc = "Start"
    /\ LET g == GetoptLoop(argv.opts, cfg) IN
       /\ argv' = Consumed
       /\ IF g.ret # -1
          THEN /\ Exit(g.ret, IF g.ret = 0 THEN "help" ELSE "usage")
               /\ cfg' = g.cfg
          ELSE IF argv.pos = <<>>
          THEN /\ Exit(1, "nopid")
               /\ cfg' = g.cfg
          ELSE LET pid == Strtol(argv.pos[1]) IN
               /\ cfg' = [g.cfg EXCEPT !.pid = pid]
               /\ IF pid <= 0
                  THEN Exit(1, "badpid")
                  ELSE /\ pc' = "CheckProc"
                       /\ UNCHANGED <<status, hist>>
    /\ UNCHANGED <<ctx, iter, done, mi, smashed, fs, target, peer>>

\* main, lines 416-422: file_exists("/proc/<pid>")
CheckProc ==
    /\ pc = "CheckProc"
    /\ IF target = "gone"
       THEN Exit(1, "noproc")
       ELSE /\ pc' = "SetupDetect"
            /\ UNCHANGED <<status, hist>>
    /\ UNCHANGED <<argv, cfg, ctx, iter, done, mi, smashed, fs, target, peer>>

(* --------------------------- system calls ----------------------------- *)

Min(a, b) == IF a < b THEN a ELSE b

\* snprintf(buf, size, ...) and strncpy(buf, text, size - 1): at most size - 1
\* characters are kept
Snprintf(size, text) == SubSeq(text, 1, Min(Len(text), size - 1))

\* file_exists(path) for a directory path of the model
file_exists(f, path) == f.kind[path] # "absent"

\* mkdir(path): made, refused, or EEXIST when another process made it between
\* the caller's stat and its mkdir
Mkdir(f, path) ==
    LET made == [f EXCEPT !.kind[path] = "dir",
                          !.limit = IF path \in GroupDirs
                                    THEN [@ EXCEPT ![path] = KernelDefaultLimit(VersionOfGroup(path))]
                                    ELSE @]
    IN  IF f.kind[ParentDir(path)] # "dir"
        THEN {[ret |-> -1, errno |-> "ENOENT", fs |-> f]}
        ELSE {[ret |-> 0, errno |-> "", fs |-> made],
              [ret |-> -1, errno |-> "EEXIST", fs |-> made],
              [ret |-> -1, errno |-> "EACCES", fs |-> f]}

\* ensure_dir(path): every [ret, errno, fs] the call may give
ensure_dir(f, path) ==
    IF f.kind[path] # "absent"
    THEN IF f.kind[path] = "dir"
         THEN {[ret |-> 0, errno |-> "", fs |-> f]}
         ELSE {[ret |-> -1, errno |-> "ENOTDIR", fs |-> f]}
    ELSE Mkdir(f, path)

\* a read that would give the kernel's default whatever the file holds
read_file_default(f, path) ==
    {[null |-> FALSE, text |-> KernelDefaultLimit(VersionOfGroup(ParentDir(path)))]}

\* read_file(path): NULL when the file cannot be opened or sought; otherwise
\* the first len characters, len being what ftell reports at the end of the
\* file: its length, or 0 as for a cgroup file, whose size the kernel gives as 0
read_file(f, path) ==
    LET dir == ParentDir(path) IN
    IF f.kind[dir] # "dir" THEN {[null |-> TRUE, text |-> <<>>]}
    ELSE {[null |-> TRUE, text |-> <<>>],
          [null |-> FALSE, text |-> f.limit[dir]],
          [null |-> FALSE, text |-> <<>>]}

\* write_file(path, val): -1 when fopen fails; otherwise fwrite fills the
\* stream's buffer and the data reaches the kernel in fclose, whose result is
\* dropped: "lost" is a write the kernel refused there, reported as 0
write_file(f, path, val, tgt, pid) ==
    LET dir == ParentDir(path) IN
    IF f.kind[dir] # "dir" THEN {[ret |-> -1, how |-> "fail", fs |-> f]}
    ELSE {[ret |-> -1, how |-> "fail", fs |-> f], [ret |-> 0, how |-> "lost", fs |-> f]}
         \cup (IF path \in LimitPaths
               THEN {[ret |-> 0, how |-> "ok", fs |-> [f EXCEPT !.limit[dir] = val]]}
               ELSE IF tgt = "alive" /\ Strtol(val) = pid
               THEN {[ret |-> 0, how |-> "ok", fs |-> [f EXCEPT !.members[dir] = TRUE]]}
               ELSE {})

\* rmdir(group_dir): a group with a live member is busy
Rmdir(f, dir, tgt) ==
    LET removed == [f EXCEPT !.kind[dir] = "absent", !.limit[dir] = <<>>,
                             !.members[dir] = FALSE]
    IN  IF f.kind[dir] # "dir" THEN {[ret |-> -1, errno |-> "ENOENT", fs |-> f]}
        ELSE IF f.members[dir] /\ tgt = "alive"
        THEN {[ret |-> -1, errno |-> "EBUSY", fs |-> f]}
        ELSE {[ret |-> 0, errno |-> "", fs |-> removed],
              [ret |-> -1, errno |-> "EACCES", fs |-> f]}

(* ---------------------------- proc status ----------------------------- *)

VmRSSTag == <<"V", "m", "R", "S", "S", ":">>
VmSwapTag == <<"V", "m", "S", "w", "a", "p", ":">>
NameLine == <<"N", "a", "m", "e", ":", "\t", "x", "\n">>

StatusLine(tag, kb) == tag \o <<"\t", " ">> \o ToDecimal(kb) \o <<" ", "k", "B", "\n">>

\* /proc/<pid>/status: a zombie's has no Vm lines
StatusFile(tgt, rss, swap) ==
    IF tgt = "alive"
    THEN <<NameLine, StatusLine(VmRSSTag, rss), StatusLine(VmSwapTag, swap)>>
    ELSE <<NameLine>>

RECURSIVE SkipNonDigits(_)
SkipNonDigits(s) ==
    IF s # <<>> /\ ~IsDigit(Head(s)) THEN SkipNonDigits(Tail(s)) ELSE s

RECURSIVE ScanStatus(_, _)
\* the fgets loop of read_proc_meminfo
ScanStatus(lines, acc) ==
    IF lines = <<>> THEN acc
    ELSE LET line == Head(lines)
             p == SkipNonDigits(line)
             next ==
                 IF IsPrefix(VmRSSTag, line)
                 THEN IF p # <<>> THEN [acc EXCEPT !.rss_kb = Strtol(p)] ELSE acc
                 ELSE IF IsPrefix(VmSwapTag, line)
                 THEN IF p # <<>> THEN [acc EXCEPT !.swap_kb = Strtol(p)] ELSE acc
                 ELSE acc
         IN ScanStatus(Tail(lines), next)

\* a sampler that would report a status file without Vm lines as not found
read_proc_meminfo_strict(tgt, rss, swap, old) ==
    IF tgt # "alive" THEN [ret |-> -1, mi |-> old]
    ELSE [ret |-> 0,
          mi |-> ScanStatus(StatusFile(tgt, rss, swap), [rss_kb |-> 0, swap_kb |-> 0])]

\* read_proc_meminfo: [ret, mi]
read_proc_meminfo(tgt, rss, swap, old) ==
    IF tgt = "gone" THEN [ret |-> -1, mi |-> old]
    ELSE [ret |-> 0,
          mi |-> ScanStatus(StatusFile(tgt, rss, swap), [rss_kb |-> 0, swap_kb |-> 0])]

(* ------------------------------- setup -------------------------------- *)

\* a detection that would take v1 for granted without looking for its directory
detect_assume_v1(f) == IF f.marker THEN CGROUP_V2 ELSE CGROUP_V1

\* a detection that would look for the v1 directory first
detect_v1_first(f) ==
    IF file_exists(f, MemoryRoot) THEN CGROUP_V1
    ELSE IF f.marker THEN CGROUP_V2
    ELSE CGROUP_NONE

detect_cgroup_version(f) ==
    IF f.marker THEN CGROUP_V2
    ELSE IF file_exists(f, MemoryRoot) THEN CGROUP_V1
    ELSE CGROUP_NONE

Called(h, name) == [h EXCEPT !.calls = Append(@, name)]

\* setup_cgroup_for_pid, lines 206-211 (and main's lines 431-434 on failure)
SetupDetect ==
    /\ pc = "SetupDetect"
    /\ LET ver == detect_cgroup_version(fs) IN
       /\ ctx' = [ZeroCtx EXCEPT !.ver = ver]
       /\ IF ver = CGROUP_NONE
          THEN /\ pc' = "Exit"
               /\ status' = 1
               /\ hist' = [Called(hist, "setup") EXCEPT !.cause = "nocontroller"]
          ELSE /\ pc' = "SetupDirs"
               /\ status' = status
               /\ hist' = Called(hist, "setup")
    /\ UNCHANGED <<argv, cfg, iter, done, mi, fs, target, smashed, peer>>

\* a test that would not let EEXIST pass
DirFailedStrict(r) == r.ret # 0

DirFailed(r) == r.ret # 0 /\ r.errno # "EEXIST"

\* the three ensure_dir calls of either branch: [ok, fs, named], named
\* telling whether group_dir had been written when the function returned
SetupDirsOutcomes(f, ver) ==
    LET first == IF ver = CGROUP_V2 THEN RootDir ELSE MemoryRoot
        r1s == ensure_dir(f, first)
        after1(r1) ==
            IF DirFailed(r1)
            THEN {[ok |-> FALSE, fs |-> r1.fs, named |-> FALSE]}
            ELSE UNION {
                IF DirFailed(r2)
                THEN {[ok |-> FALSE, fs |-> r2.fs, named |-> FALSE]}
                ELSE {[ok |-> ~DirFailed(r3), fs |-> r3.fs, named |-> TRUE] :
                         r3 \in ensure_dir(r2.fs, GroupDir(ver))}
                : r2 \in ensure_dir(r1.fs, BaseDir(ver))}
    IN UNION {after1(r1) : r1 \in r1s}

\* setup_cgroup_for_pid, lines 213-257
SetupDirs ==
    /\ pc = "SetupDirs"
    /\ \E r \in SetupDirsOutcomes(fs, ctx.ver) :
        /\ fs' = r.fs
        /\ ctx' = IF r.named
                  THEN [ctx EXCEPT !.group_dir = GroupDir(ctx.ver),
                                   !.procs_path = IF r.ok THEN ProcsPath(ctx.ver) ELSE @,
                                   !.limit_path = IF r.ok THEN LimitPath(ctx.ver) ELSE @]
                  ELSE ctx
        /\ IF r.ok
           THEN /\ pc' = "SetupBackup"
                /\ status' = status
                /\ hist' = [hist EXCEPT !.limit0 = r.fs.limit[GroupDir(ctx.ver)]]
           ELSE /\ pc' = "Exit"
                /\ status' = 1
                /\ hist' = [hist EXCEPT !.cause = "mkdir"]
    /\ UNCHANGED <<argv, cfg, iter, done, mi, target, smashed, peer>>

\* setup_cgroup_for_pid, lines 259-273
SetupBackup ==
    /\ pc = "SetupBackup"
    /\ \E orig \in read_file(fs, ctx.limit_path) :
        ctx' = IF orig.null
               THEN [ctx EXCEPT !.had_backup = 0]
               ELSE [ctx EXCEPT !.backup_limit = Snprintf(BackupSize, rtrim(orig.text)),
                                !.had_backup = 1]
    /\ pc' = "SetupMigrate"
    /\ UNCHANGED <<argv, cfg, iter, done, mi, status, fs, target, smashed, hist, peer>>

\* setup_cgroup_for_pid, lines 275-286 (and main's lines 431-434 on failure)
SetupMigrate ==
    /\ pc = "SetupMigrate"
    /\ \E w \in write_file(fs, ctx.procs_path, ToDecimal(cfg.pid) \o <<"\n">>,
                           target, Strtol(TargetPidText)) :
        /\ fs' = w.fs
        /\ IF w.ret # 0
           THEN /\ pc' = "Exit"
                /\ status' = 1
                /\ hist' = [hist EXCEPT !.cause = "migrate"]
           ELSE /\ pc' = "Apply"
                /\ status' = status
                /\ hist' = [hist EXCEPT !.rejected =
                                IF w.how = "lost" THEN @ \cup {"migrate"} ELSE @]
    /\ UNCHANGED <<argv, cfg, ctx, iter, done, mi, target, smashed, peer>>

(* --------------------------- apply the limit -------------------------- *)

\* the text apply_low_limit writes: "%lld\n" of limit_mb * 1024 * 1024
LimitText(limit_mb) == Snprintf(BufSize, ToDecimal(limit_mb * 1024 * 1024) \o <<"\n">>)

\* a failure path that would go to cleanup without restoring
AfterApplySkip(ret) == IF ret # 0 THEN "CleanupA" ELSE "Poll"

\* main's branch on the result of apply_low_limit, lines 436-440
AfterApply(ret) == IF ret # 0 THEN "RestoreA" ELSE "Poll"

\* apply_low_limit, lines 290-309, as main calls it on line 436
ApplyLowLimit ==
    /\ pc = "Apply"
    /\ \E w \in write_file(fs, ctx.limit_path, LimitText(cfg.limit_mb), target, cfg.pid) :
        /\ fs' = w.fs
        /\ pc' = AfterApply(w.ret)
        /\ hist' = [Called(hist, "apply") EXCEPT
                        !.tempWritten = (w.how = "ok"),
                        !.cause = IF w.ret # 0 THEN "applyfail" ELSE @,
                        !.rejected = IF w.how = "lost" THEN @ \cup {"apply"} ELSE @]
    /\ iter' = 0
    /\ done' = 0
    /\ UNCHANGED <<argv, cfg, ctx, mi, status, target, smashed, peer>>

(* ------------------------------ poll loop ----------------------------- *)

\* main's test on line 474: the warning that max_iter was reached
TimeoutWarning(d, quiet) == d = 0 /\ quiet = 0

\* a loop that would run one pass too many
LoopTestLe(i, max_iter) == i <= max_iter

\* the loop condition on line 449
LoopTest(i, max_iter) == i < max_iter

\* one pass of the while loop up to its break or its iter++, lines 449-470
PollSample ==
    /\ pc = "Poll"
    /\ LoopTest(iter, cfg.max_iter)
    /\ \E rss \in RssValues, swap \in SwapValues :
        LET r == read_proc_meminfo(target, rss, swap, mi) IN
        /\ mi' = r.mi
        /\ IF r.ret # 0
           THEN /\ done' = 1
                /\ iter' = iter
                /\ pc' = "Restore"
                /\ hist' = [hist EXCEPT !.samples = @ + 1, !.hits = @ + 1,
                                        !.stop = "ProcessVanished", !.cause = "vanished",
                                        !.warned = TimeoutWarning(1, cfg.quiet)]
           ELSE IF r.mi.rss_kb <= cfg.target_rss_kb
           THEN /\ done' = 1
                /\ iter' = iter
                /\ pc' = "Restore"
                /\ hist' = [hist EXCEPT !.samples = @ + 1, !.hits = @ + 1,
                                        !.stop = "Converged", !.cause = "converged",
                                        !.warned = TimeoutWarning(1, cfg.quiet)]
           ELSE /\ done' = done
                /\ iter' = iter + 1
                /\ pc' = "Sleep"
                /\ hist' = [hist EXCEPT !.samples = @ + 1]
    /\ UNCHANGED <<argv, cfg, ctx, status, fs, target, smashed, peer>>

\* sleep_double: nanosleep is called for a positive interval only
Sleeps(secs) == IF secs <= 0 THEN 0 ELSE 1

\* a loop that would write the ceiling again before every pass but the first
SleepThenApply ==
    /\ pc = "Sleep"
    /\ pc' = "Apply"
    /\ hist' = [hist EXCEPT !.sleeps = @ + Sleeps(cfg.interval)]
    /\ UNCHANGED <<argv, cfg, ctx, iter, done, mi, status, fs, target, smashed, peer>>

\* a loop that would capture the limit again after every pass
SleepRecapture ==
    /\ pc = "Sleep"
    /\ pc' = "Poll"
    /\ ctx' = [ctx EXCEPT !.backup_limit = rtrim(fs.limit[ctx.group_dir]), !.had_backup = 1]
    /\ hist' = [hist EXCEPT !.sleeps = @ + Sleeps(cfg.interval)]
    /\ UNCHANGED <<argv, cfg, iter, done, mi, status, fs, target, smashed, peer>>

\* the sleep on line 471 that ends a pass
Sleep ==
    /\ pc = "Sleep"
    /\ pc' = "Poll"
    /\ hist' = [hist EXCEPT !.sleeps = @ + Sleeps(cfg.interval)]
    /\ UNCHANGED <<argv, cfg, ctx, iter, done, mi, status, fs, target, smashed, peer>>

\* the loop condition failing (line 449) and the warning (lines 474-476)
PollEnd ==
    /\ pc = "Poll"
    /\ ~LoopTest(iter, cfg.max_iter)
    /\ pc' = "Restore"
    /\ hist' = [hist EXCEPT !.stop = "TimedOut", !.cause = "timeout",
                            !.warned = TimeoutWarning(done, cfg.quiet)]
    /\ UNCHANGED <<argv, cfg, ctx, iter, done, mi, status, fs, target, smashed, peer>>

(* ------------------------- restore and cleanup ------------------------ *)

\* what strcpy(fallback, "9223372036854771712") may do: 20 bytes go into a
\* 16-byte array.  "intended": the bytes past the array land where nothing
\* reads them; "truncated": val ends at the array's size; "clobber": they
\* overwrite main's frame; "abort": a checked strcpy ends the process.
OverflowOutcomes == {"intended", "truncated", "clobber", "abort"}

\* restore_limit's choice of val, lines 318-328: every [val, how]
RestoreValues(c) ==
    IF c.had_backup = 1 /\ c.backup_limit # <<>>
    THEN {[val |-> c.backup_limit, how |-> "intended"]}
    ELSE IF c.ver = CGROUP_V2
    THEN {[val |-> MaxText, how |-> "intended"]}
    ELSE {[val |-> IF o = "truncated" THEN SubSeq(V1MaxText, 1, FallbackSize)
                   ELSE V1MaxText,
           how |-> o] : o \in OverflowOutcomes}

\* restore_limit, lines 312-339, as main calls it on lines 437 and 478
RestoreLimit ==
    /\ pc \in {"Restore", "RestoreA"}
    /\ ctx.ver # CGROUP_NONE
    /\ \E v \in RestoreValues(ctx) :
        IF v.how = "abort"
        THEN /\ pc' = "Aborted"
             /\ hist' = Called(hist, "restore")
             /\ UNCHANGED <<fs, smashed>>
        ELSE \E w \in write_file(fs, ctx.limit_path,
                                 Snprintf(TmpSize, v.val \o <<"\n">>), target, cfg.pid) :
             /\ fs' = w.fs
             /\ smashed' = (v.how = "clobber")
             /\ pc' = IF pc = "Restore" THEN "Cleanup" ELSE "CleanupA"
             /\ hist' = [Called(hist, "restore") EXCEPT !.restoreWritten = (w.how = "ok")]
    /\ UNCHANGED <<argv, cfg, ctx, iter, done, mi, status, target, peer>>

\* a cleanup that would first move the target back to the parent group
CleanupMoveOut ==
    /\ pc \in {"Cleanup", "CleanupA"}
    /\ \E r \in Rmdir([fs EXCEPT !.members = NoMembers], ctx.group_dir, target) :
         /\ fs' = r.fs
         /\ hist' = [Called(hist, "cleanup") EXCEPT
                         !.rmdir = IF r.ret = 0 THEN "ok" ELSE r.errno]
    /\ pc' = "Exit"
    /\ status' = IF smashed THEN ClobberedStatus
                 ELSE IF pc = "CleanupA" THEN 1 ELSE 0
    /\ UNCHANGED <<argv, cfg, ctx, iter, done, mi, target, smashed, peer>>

\* cleanup_cgroup, lines 342-353, and main's return after it (440, 484)
CleanupCgroup ==
    /\ pc \in {"Cleanup", "CleanupA"}
    /\ IF ctx.group_dir = ""
       THEN /\ fs' = fs
            /\ hist' = Called(hist, "cleanup")
       ELSE \E r \in Rmdir(fs, ctx.group_dir, target) :
            /\ fs' = r.fs
            /\ hist' = [Called(hist, "cleanup") EXCEPT
                            !.rmdir = IF r.ret = 0 THEN "ok" ELSE r.errno]
    /\ pc' = "Exit"
    /\ status' = IF smashed THEN ClobberedStatus
                 ELSE IF pc = "CleanupA" THEN 1 ELSE 0
    /\ UNCHANGED <<argv, cfg, ctx, iter, done, mi, target, smashed, peer>>

(* ---------------------------- environment ----------------------------- *)

\* The positions at which main is about to look at the target (its /proc
\* entry, its membership of a group).  The target may exit at any time; a
\* change between two looks is seen at the second one, so it is taken there.
Looking == pc \in {"CheckProc", "SetupMigrate", "Poll", "Cleanup", "CleanupA"}

\* the target exits: its status file loses the Vm lines until it is reaped
TargetExit ==
    /\ Looking
    /\ target = "alive"
    /\ target' = "zombie"
    /\ UNCHANGED <<argv, pc, cfg, ctx, iter, done, mi, status, fs, smashed, hist, peer>>

\* the target is reaped: /proc/<pid> is gone and it is no member of any group
TargetReap ==
    /\ Looking
    /\ target = "zombie"
    /\ target' = "gone"
    /\ fs' = [fs EXCEPT !.members = NoMembers]
    /\ UNCHANGED <<argv, pc, cfg, ctx, iter, done, mi, status, smashed, hist, peer>>

\* a signal ends the tool: main installs no handler, so nothing more runs
Kill ==
    /\ pc \in {"Poll", "Sleep"}
    /\ pc' = "Killed"
    /\ UNCHANGED <<argv, cfg, ctx, iter, done, mi, status, fs, target, smashed, hist, peer>>

(* ------------------------------- runs --------------------------------- *)

\* a command line that gets to the poll loop with max_iter above MaxIterArg
RunsLong(a) ==
    LET g == GetoptLoop(a.opts, DefaultCfg) IN
    /\ g.ret = -1
    /\ a.pos # <<>>
    /\ Strtol(a.pos[1]) > 0
    /\ g.cfg.max_iter > MaxIterArg

\* The runs explored.  A run of the default 60 passes is followed through
\* the poll loop for the plain command line on a host without a swapout
\* group; every other command line polls with --max-iter <= MaxIterArg, on
\* every host.
Explored(a, f, t) ==
    RunsLong(a) =>
        IF a.opts = <<>>
        THEN \A v \in Versions : f.kind[BaseDir(v)] = "absent"
        ELSE detect_cgroup_version(f) = CGROUP_NONE \/ t = "gone"

Init ==
    /\ argv \in [opts : OptionLists, pos : Positionals]
    /\ pc = "Start"
    /\ cfg = DefaultCfg
    /\ ctx = ZeroCtx
    /\ iter = 0
    /\ done = 0
    /\ mi = [rss_kb |-> 0, swap_kb |-> 0]
    /\ status = -1
    /\ smashed = FALSE
    /\ fs \in InitialFs
    /\ target \in {"alive", "gone"}
    /\ Explored(argv, fs, target)
    /\ hist = InitHist
    /\ peer = NoPeer

(* --------------------------- specification ---------------------------- *)

Next ==
    \/ ParseArgs
    \/ CheckProc
    \/ SetupDetect
    \/ SetupDirs
    \/ SetupBackup
    \/ SetupMigrate
    \/ ApplyLowLimit
    \/ PollSample
    \/ Sleep
    \/ PollEnd
    \/ RestoreLimit
    \/ CleanupCgroup
    \/ TargetExit
    \/ TargetReap
    \/ Kill

Spec == Init /\ [][Next]_vars

\* the steps of the program itself
Controller ==
    \/ ParseArgs
    \/ CheckProc
    \/ SetupDetect
    \/ SetupDirs
    \/ SetupBackup
    \/ SetupMigrate
    \/ ApplyLowLimit
    \/ PollSample
    \/ Sleep
    \/ PollEnd
    \/ RestoreLimit
    \/ CleanupCgroup

\* the runs nobody kills
NextLive == Controller \/ TargetExit \/ TargetReap

\* every call the program makes returns: a step it can take is taken
SpecLive == Init /\ [][NextLive]_vars /\ WF_vars(Controller)

(* ----------------------- a second invocation -------------------------- *)

\* The same program started a second time against the same pid, while the
\* first is running.  Its steps on the shared cgroup filesystem are followed
\* call by call; its command line is the plain one and its poll loop is one
\* step, since sampling touches no cgroup file.

OwnVars == <<argv, pc, cfg, ctx, iter, done, mi, status, smashed, hist>>

\* setup_cgroup_for_pid, lines 206-211
PeerSetupDetect ==
    /\ peer.pc = "SetupDetect"
    /\ LET ver == detect_cgroup_version(fs) IN
       peer' = [peer EXCEPT !.ctx = [ZeroCtx EXCEPT !.ver = ver],
                            !.pc = IF ver = CGROUP_NONE THEN "Exit" ELSE "SetupDirs"]
    /\ UNCHANGED <<OwnVars, fs, target>>

\* setup_cgroup_for_pid, lines 213-257
PeerSetupDirs ==
    /\ peer.pc = "SetupDirs"
    /\ \E r \in SetupDirsOutcomes(fs, peer.ctx.ver) :
        /\ fs' = r.fs
        /\ peer' = [peer EXCEPT
               !.pc = IF r.ok THEN "SetupBackup" ELSE "Exit",
               !.ctx = IF r.named
                       THEN [@ EXCEPT !.group_dir = GroupDir(peer.ctx.ver),
                                      !.procs_path = IF r.ok THEN ProcsPath(peer.ctx.ver) ELSE @,
                                      !.limit_path = IF r.ok THEN LimitPath(peer.ctx.ver) ELSE @]
                       ELSE @]
    /\ UNCHANGED <<OwnVars, target>>

\* setup_cgroup_for_pid, lines 259-273
PeerSetupBackup ==
    /\ peer.pc = "SetupBackup"
    /\ \E orig \in read_file(fs, peer.ctx.limit_path) :
        peer' = [peer EXCEPT
            !.pc = "SetupMigrate",
            !.ctx = IF orig.null
                    THEN [@ EXCEPT !.had_backup = 0]
                    ELSE [@ EXCEPT !.backup_limit = Snprintf(BackupSize, rtrim(orig.text)),
                                   !.had_backup = 1]]
    /\ UNCHANGED <<OwnVars, fs, target>>

\* setup_cgroup_for_pid, lines 275-286
PeerSetupMigrate ==
    /\ peer.pc = "SetupMigrate"
    /\ \E w \in write_file(fs, peer.ctx.procs_path, TargetPidText \o <<"\n">>,
                           target, Strtol(TargetPidText)) :
        /\ fs' = w.fs
        /\ peer' = [peer EXCEPT !.pc = IF w.ret # 0 THEN "Exit" ELSE "Apply"]
    /\ UNCHANGED <<OwnVars, target>>

\* apply_low_limit with the default limit_mb, and main's lines 436-440
PeerApplyLowLimit ==
    /\ peer.pc = "Apply"
    /\ \E w \in write_file(fs, peer.ctx.limit_path, LimitText(DefaultLimitMb),
                           target, Strtol(TargetPidText)) :
        /\ fs' = w.fs
        /\ peer' = [peer EXCEPT !.pc = AfterApply(w.ret)]
    /\ UNCHANGED <<OwnVars, target>>

\* the whole poll loop, lines 443-476
PeerPoll ==
    /\ peer.pc = "Poll"
    /\ peer' = [peer EXCEPT !.pc = "Restore"]
    /\ UNCHANGED <<OwnVars, fs, target>>

\* restore_limit, lines 312-339
PeerRestoreLimit ==
    /\ peer.pc \in {"Restore", "RestoreA"}
    /\ \E v \in RestoreValues(peer.ctx) :
        IF v.how = "abort"
        THEN /\ peer' = [peer EXCEPT !.pc = "Aborted"]
             /\ fs' = fs
        ELSE \E w \in write_file(fs, peer.ctx.limit_path,
                                 Snprintf(TmpSize, v.val \o <<"\n">>),
                                 target, Strtol(TargetPidText)) :
             /\ fs' = w.fs
             /\ peer' = [peer EXCEPT !.pc = "Cleanup", !.restored = (w.how = "ok")]
    /\ UNCHANGED <<OwnVars, target>>

\* cleanup_cgroup, lines 342-353, and main's return
PeerCleanupCgroup ==
    /\ peer.pc = "Cleanup"
    /\ \E r \in Rmdir(fs, peer.ctx.group_dir, target) : fs' = r.fs
    /\ peer' = [peer EXCEPT !.pc = "Exit"]
    /\ UNCHANGED <<OwnVars, target>>

\* the first invocation's command line: --max-iter 1 <pid>
TwoArgv == [opts |-> <<[o |-> "n", a |-> ToDecimal(1)]>>, pos |-> <<TargetPidText>>]

\* both start on a host that has a controller and no swapout directory yet
InitTwo ==
    /\ argv = TwoArgv
    /\ pc = "Start"
    /\ cfg = DefaultCfg
    /\ ctx = ZeroCtx
    /\ iter = 0
    /\ done = 0
    /\ mi = [rss_kb |-> 0, swap_kb |-> 0]
    /\ status = -1
    /\ smashed = FALSE
    /\ fs \in {f \in InitialFs : /\ detect_cgroup_version(f) # CGROUP_NONE
                                /\ \A v \in Versions : f.kind[BaseDir(v)] = "absent"}
    /\ target = "alive"
    /\ hist = InitHist
    /\ peer = [NoPeer EXCEPT !.pc = "SetupDetect"]

NextTwo ==
    \/ Next
    \/ PeerSetupDetect
    \/ PeerSetupDirs
    \/ PeerSetupBackup
    \/ PeerSetupMigrate
    \/ PeerApplyLowLimit
    \/ PeerPoll
    \/ PeerRestoreLimit
    \/ PeerCleanupCgroup

SpecTwo == InitTwo /\ [][NextTwo]_vars

(* ----------------------- C's integer widths ---------------------------- *)

\* The option values with the widths main gives them: long and long long
\* are 64 bits, int is 32.  A 64-bit pattern is four 16-bit limbs, the
\* lowest first, read as two's complement.

LimbBase == 65536
LimbHalf == 32768

WZero == <<0, 0, 0, 0>>
LongMax == <<65535, 65535, 65535, 32767>>
LongMin == <<0, 0, 0, 32768>>

\* the pattern of a small natural number
WNat(n) == <<n % LimbBase, n \div LimbBase, 0, 0>>

WNegative(w) == w[4] >= LimbHalf

WPositive(w) == ~WNegative(w) /\ w # WZero

\* w * m + a on 64 bits, for small m and a: [w, carry]
WMulAdd(w, m, a) ==
    LET t1 == w[1] * m + a
        t2 == w[2] * m + (t1 \div LimbBase)
        t3 == w[3] * m + (t2 \div LimbBase)
        t4 == w[4] * m + (t3 \div LimbBase)
    IN  [w |-> <<t1 % LimbBase, t2 % LimbBase, t3 % LimbBase, t4 % LimbBase>>,
         carry |-> t4 \div LimbBase]

\* the unsigned pattern w divided by a small d: [q, r]
WDiv(w, d) ==
    LET t4 == w[4]
        t3 == (t4 % d) * LimbBase + w[3]
        t2 == (t3 % d) * LimbBase + w[2]
        t1 == (t2 % d) * LimbBase + w[1]
    IN  [q |-> <<t1 \div d, t2 \div d, t3 \div d, t4 \div d>>, r |-> t1 % d]

\* two's complement negation
WNeg(w) ==
    WMulAdd(<<LimbBase - 1 - w[1], LimbBase - 1 - w[2],
              LimbBase - 1 - w[3], LimbBase - 1 - w[4]>>, 1, 1).w

RECURSIVE WDigits(_)
\* the decimal digits of an unsigned pattern, <<>> for zero
WDigits(w) ==
    IF w = WZero THEN <<>>
    ELSE LET d == WDiv(w, 10) IN WDigits(d.q) \o <<Digits[d.r + 1]>>

\* "%lld" of a 64-bit pattern
WToDecimal(w) ==
    IF w = WZero THEN <<"0">>
    ELSE IF WNegative(w) THEN <<"-">> \o WDigits(WNeg(w))
    ELSE WDigits(w)

RECURSIVE WDigitRun(_, _)
\* the digits at the head of s accumulated on acc: [w, over], over telling
\* that the magnitude has left the range of long
WDigitRun(s, acc) ==
    IF s = <<>> \/ ~IsDigit(Head(s)) THEN acc
    ELSE LET r == WMulAdd(acc.w, 10, DigitVal(Head(s))) IN
         IF acc.over \/ r.carry > 0 \/ WNegative(r.w)
         THEN [w |-> r.w, over |-> TRUE]
         ELSE WDigitRun(Tail(s), [w |-> r.w, over |-> FALSE])

\* strtol(s, NULL, 10) as a long: white space, a sign, digits; a value out
\* of range gives LONG_MAX or LONG_MIN
strtol_long(s) ==
    LET t == SkipSpace(s)
        neg == t # <<>> /\ Head(t) = "-"
        u == IF t # <<>> /\ Head(t) \in {"-", "+"} THEN Tail(t) ELSE t
        r == WDigitRun(u, [w |-> WZero, over |-> FALSE])
    IN  IF r.over THEN (IF neg THEN LongMin ELSE LongMax)
        ELSE IF neg THEN WNeg(r.w) ELSE r.w

\* the int a long is converted to: its low 32 bits
LongToInt(w) ==
    IF w[2] >= LimbHalf THEN (w[2] - LimbBase) * LimbBase + w[1]
    ELSE w[2] * LimbBase + w[1]

\* atoi(s): (int) strtol(s, NULL, 10)
atoi_int(s) == LongToInt(strtol_long(s))

\* main's defaults, lines 358-362, and the text apply_low_limit has written
WideCfg ==
    [limit_mb |-> WNat(DefaultLimitMb), target_rss_kb |-> WNat(DefaultTargetRssKb),
     interval |-> DefaultIntervalMs, max_iter |-> DefaultMaxIter, quiet |-> 0,
     buf |-> <<>>]

\* one pass of main's switch, lines 377-396, with the widths of C
OptionCaseWide(c, t) ==
    CASE t.o = "m" ->
            LET v == strtol_long(t.a) IN
            [c EXCEPT !.limit_mb = IF ~WPositive(v) THEN WNat(DefaultLimitMb) ELSE v]
      [] t.o = "r" ->
            LET v == strtol_long(t.a) IN
            [c EXCEPT !.target_rss_kb = IF ~WPositive(v) THEN WNat(DefaultTargetRssKb) ELSE v]
      [] t.o = "i" ->
            LET v == AtofMs(t.a) IN
            [c EXCEPT !.interval = IF v <= 0 THEN DefaultIntervalMs ELSE v]
      [] t.o = "n" ->
            LET v == atoi_int(t.a) IN
            [c EXCEPT !.max_iter = IF v <= 0 THEN DefaultMaxIter ELSE v]
      [] t.o = "q" -> [c EXCEPT !.quiet = 1]
      [] OTHER -> c

\* (long long)limit_mb * 1024LL * 1024LL, lines 294 and 297: the 64 bits
\* kept, and whether the signed product left the range of long long
apply_bytes(limit_mb) ==
    LET a == WMulAdd(limit_mb, 1024, 0)
        b == WMulAdd(a.w, 1024, 0)
    IN  [w |-> b.w,
         over |-> a.carry > 0 \/ WNegative(a.w) \/ b.carry > 0 \/ WNegative(b.w)]

\* what a signed overflow may do: the product wraps, or a build that traps
\* on overflow ends the process
SignedOverflowOutcomes == {"wrap", "trap"}

\* most options given on one command line of SpecArgs
MaxArgOpts == 2

\* option arguments around the edges of int and long, and of the product
WideTexts ==
    {<<"0">>, <<"-", "5">>, <<"x">>, <<"1">>, <<"8">>,
     ToDecimal(2147483647),
     <<"2", "1", "4", "7", "4", "8", "3", "6", "4", "8">>,
     <<"4", "2", "9", "4", "9", "6", "7", "2", "9", "7">>,
     <<"8", "7", "9", "6", "0", "9", "3", "0", "2", "2", "2", "0", "7">>,
     <<"8", "7", "9", "6", "0", "9", "3", "0", "2", "2", "2", "0", "8">>,
     <<"9", "2", "2", "3", "3", "7", "2", "0", "3", "6", "8", "5", "4", "7", "7",
       "5", "8", "0", "7">>}

IntervalTexts == {<<"0">>, <<"-", "1">>, <<"0", ".", "5">>, <<"2">>}

WideTokens ==
    [o : {"m", "r", "n"}, a : WideTexts] \cup [o : {"i"}, a : IntervalTexts]
    \cup [o : {"q"}, a : {<<>>}]

WideLists == UNION {[1..k -> WideTokens] : k \in 0..MaxArgOpts}

\* the options are taken one by one, iter counting those taken
InitArgs ==
    /\ argv \in [opts : WideLists, pos : {<<TargetPidText>>}]
    /\ pc = "Start"
    /\ cfg = WideCfg
    /\ ctx = ZeroCtx
    /\ iter = 0
    /\ done = 0
    /\ mi = [rss_kb |-> 0, swap_kb |-> 0]
    /\ status = -1
    /\ smashed = FALSE
    /\ fs \in {f \in InitialFs : f.marker /\ f.kind[MemoryRoot] = "dir"}
    /\ target = "alive"
    /\ hist = InitHist
    /\ peer = NoPeer

\* one pass of the getopt_long loop, lines 376-402
ArgsOption ==
    /\ pc = "Start"
    /\ iter < Len(argv.opts)
    /\ cfg' = OptionCaseWide(cfg, argv.opts[iter + 1])
    /\ iter' = iter + 1
    /\ UNCHANGED <<argv, pc, ctx, done, mi, status, fs, target, smashed, hist, peer>>

\* the options are over: what apply_low_limit puts in buf, lines 291-299
ArgsApply ==
    /\ pc = "Start"
    /\ iter = Len(argv.opts)
    /\ LET b == apply_bytes(cfg.limit_mb) IN
       \E o \in IF b.over THEN SignedOverflowOutcomes ELSE {"wrap"} :
          IF o = "trap"
          THEN /\ pc' = "Aborted"
               /\ cfg' = cfg
          ELSE /\ pc' = "Applied"
               /\ cfg' = [cfg EXCEPT !.buf = Snprintf(BufSize, WToDecimal(b.w) \o <<"\n">>)]
    /\ UNCHANGED <<argv, ctx, iter, done, mi, status, fs, target, smashed, hist, peer>>

NextArgs == ArgsOption \/ ArgsApply

SpecArgs == InitArgs /\ [][NextArgs]_vars

(* ------------------------------ claims -------------------------------- *)

Ended == pc \in {"Exit", "Aborted", "Killed"}

Count(seq, x) == Cardinality({i \in 1..Len(seq) : seq[i] = x})

EndsWith(seq, tail) ==
    Len(tail) <= Len(seq) /\ SubSeq(seq, Len(seq) - Len(tail) + 1, Len(seq)) = tail

\* the ceiling file of the run's group can be read
LimitReadable == ctx.limit_path # "" /\ fs.kind[ctx.group_dir] = "dir"
LimitContent == fs.limit[ctx.group_dir]

\* the "unlimited" text the specification names for each version
Sentinel(ver) == IF ver = CGROUP_V2 THEN MaxText ELSE V1MaxText

\* restore_limit took the v1 fallback, whose strcpy overruns fallback[16]
Overflowed ==
    /\ Count(hist.calls, "restore") > 0
    /\ ctx.ver = CGROUP_V1
    /\ ~(ctx.had_backup = 1 /\ ctx.backup_limit # <<>>)

\* C1: once the temporary ceiling has been written, a run that ended its
\* poll loop in Converged, TimedOut or ProcessVanished has called
\* restore_limit and then cleanup_cgroup, in that order, when the process
\* is over.
C1_RestoreThenCleanup ==
    (pc \in {"Exit", "Aborted"} /\ hist.stop # "none")
        => EndsWith(hist.calls, <<"restore", "cleanup">>)

\* C2: when the tool exits after a restore_limit whose write was taken, the
\* ceiling file, if it can be read, holds the text captured as the original
\* limit, and the sentinel of the version when no original text was captured
\* (the read failed or gave no text).
C2_RoundTrip ==
    (pc = "Exit" /\ hist.restoreWritten /\ LimitReadable)
        => rtrim(LimitContent) =
               IF ctx.had_backup = 1 /\ ctx.backup_limit # <<>>
               THEN ctx.backup_limit ELSE Sentinel(ctx.ver)

\* C3: no run that wrote the temporary ceiling ends, normally or by being
\* terminated or crashing, with the ceiling file still holding it.
C3_NeverLeftConstrained ==
    (Ended /\ hist.tempWritten /\ LimitReadable)
        => LimitContent # LimitText(cfg.limit_mb)

\* C4: on every path that got to apply_low_limit, cleanup_cgroup is called
\* exactly once before the process is over, and never twice.
C4_CleanupOnce ==
    /\ Count(hist.calls, "cleanup") <= 1
    /\ (pc \in {"Exit", "Aborted"} /\ Count(hist.calls, "apply") = 1)
           => Count(hist.calls, "cleanup") = 1

\* C5 as stated: at most max_iter samples, and strictly fewer whenever a
\* sample showed the target reached or the process gone.
C5_StrictlyFewer ==
    /\ hist.samples <= cfg.max_iter
    /\ hist.hits > 0 => hist.samples < cfg.max_iter

\* C5, amended: at most max_iter samples are taken, and the first sample
\* that shows the target reached or the process gone is the last one taken
\* (so fewer than max_iter are taken unless it is the max_iter-th).
C5_PollBound ==
    /\ hist.samples <= cfg.max_iter
    /\ hist.hits <= 1
    /\ hist.hits = 1 => (pc \notin {"Poll", "Sleep"} /\ hist.samples = iter + 1)
    /\ hist.hits = 0 => hist.samples = iter

\* the case C5 is about: the max_iter-th sample is the one that converges
C5_Witness ==
    /\ hist.stop = "Converged"
    /\ hist.samples = cfg.max_iter
    /\ hist.samples > 1

\* C6: the exit status is 0 exactly for help, Converged, ProcessVanished and
\* TimedOut, and 1 exactly for the failures of the list (a bad option is
\* counted with the bad arguments); a pid migration that failed gives 1.
C6_ExitStatus ==
    pc = "Exit" =>
        /\ status = 0 <=> hist.cause \in {"help", "converged", "vanished", "timeout"}
        /\ status = 1 <=> hist.cause \in {"usage", "nopid", "badpid", "noproc",
                                          "nocontroller", "mkdir", "migrate", "applyfail"}
        /\ "migrate" \in hist.rejected => status = 1

\* neither the v2 marker file nor the v1 memory directory is there
NoMarkers(f) == ~f.marker /\ f.kind[MemoryRoot] = "absent"

\* C7: on a host without either marker no step changes the filesystem, and
\* the step that detects the version ends the run with status 1.
C7_NoController ==
    [][NoMarkers(fs) =>
          /\ fs' = fs
          /\ pc = "SetupDetect" => (pc' = "Exit" /\ status' = 1)
          /\ ctx'.group_dir = ""]_vars

C7_Witness ==
    /\ NoMarkers(fs)
    /\ pc = "Exit"
    /\ hist.cause = "nocontroller"
    /\ status = 1

\* C8: a run that created or adopted the per-pid group directory has called
\* cleanup_cgroup when it exits.
C8_RemovalAttempted ==
    (pc = "Exit" /\ ctx.procs_path # "") => Count(hist.calls, "cleanup") >= 1

\* C9: with cgroup v2 and a target that stays alive, a run that ends
\* Converged has taken the samples up to the converging one, has called
\* restore_limit, has removed the group directory (unless rmdir was refused
\* for lack of permission) and exits 0.
C9_ConvergedV2 ==
    (pc = "Exit" /\ ctx.ver = CGROUP_V2 /\ hist.stop = "Converged" /\ target = "alive")
        => /\ hist.samples = iter + 1
           /\ status = 0
           /\ Count(hist.calls, "restore") = 1
           /\ hist.rmdir # "EACCES" => fs.kind[ctx.group_dir] = "absent"

\* C10: a sample that finds the process gone ends the loop at once (no
\* further sample or sleep), and the run then calls restore_limit and
\* cleanup_cgroup and exits 0.
C10_Vanished ==
    hist.stop = "ProcessVanished" =>
        /\ pc \notin {"Poll", "Sleep"}
        /\ hist.samples = iter + 1
        /\ pc \in {"Exit", "Aborted"} =>
              /\ pc = "Exit"
              /\ status = 0
              /\ EndsWith(hist.calls, <<"restore", "cleanup">>)

\* What holds of every run that does not take the v1 fallback of
\* restore_limit: the order of the calls, the single cleanup and the exit
\* status are as C1, C4 and C10 say.
FlowBarOverflow ==
    ~Overflowed => (C1_RestoreThenCleanup /\ C4_CleanupOnce /\ C10_Vanished)

\* the three directories setup_cgroup_for_pid ensures for a version
SetupPaths(ver) ==
    {IF ver = CGROUP_V2 THEN RootDir ELSE MemoryRoot, BaseDir(ver), GroupDir(ver)}

C12_ApplyFails ==
    (hist.cause = "applyfail" \/ "apply" \in hist.rejected) =>
        /\ hist.samples = 0
        /\ hist.sleeps = 0
        /\ pc \in {"Exit", "Aborted"} =>
              /\ pc = "Exit"
              /\ status = 1
              /\ hist.calls = <<"setup", "apply", "restore", "cleanup">>

\* main's positions in the order of the controller's states
Rank(p) ==
    CASE p = "Start" -> 0
      [] p = "CheckProc" -> 1
      [] p = "SetupDetect" -> 2
      [] p = "SetupDirs" -> 3
      [] p = "SetupBackup" -> 4
      [] p = "SetupMigrate" -> 5
      [] p = "Apply" -> 6
      [] p \in {"Poll", "Sleep"} -> 7
      [] p \in {"Restore", "RestoreA"} -> 8
      [] p \in {"Cleanup", "CleanupA"} -> 9
      [] OTHER -> 10

StopStates == {"Converged", "TimedOut", "ProcessVanished"}

\* C13: main's position never moves back (it stays in the poll loop or moves
\* on), setup and apply are called at most once, no sample is taken once
\* restore_limit was called, a stopping state once reached is never changed,
\* and a run that entered the poll loop and got past it has exactly one.
C13_ForwardOnly ==
    /\ [](/\ Count(hist.calls, "setup") <= 1
          /\ Count(hist.calls, "apply") <= 1
          /\ hist.stop \in StopStates \cup {"none"}
          /\ (hist.samples > 0 /\ Rank(pc) > 7 /\ pc # "Killed") => hist.stop \in StopStates
          /\ hist.stop # "none" => (Rank(pc) > 7 /\ hist.cause # "applyfail"))
    /\ [][/\ Rank(pc') >= Rank(pc)
          /\ (Rank(pc') = Rank(pc) /\ pc' # pc) => Rank(pc) = 7
          /\ Count(hist.calls, "restore") > 0 => hist'.samples = hist.samples
          /\ hist.stop # "none" => hist'.stop = hist.stop]_vars

\* a run that went through every state, timing out after several passes
C13_Witness ==
    /\ pc = "Exit"
    /\ hist.calls = <<"setup", "apply", "restore", "cleanup">>
    /\ hist.stop = "TimedOut"
    /\ hist.samples >= 2

\* C14 as stated: restore_limit has been called exactly once in every run
\* that has exited.
C14_EveryRun == pc = "Exit" => Count(hist.calls, "restore") = 1

\* C14, amended: restore_limit is never called twice; a run that has exited
\* or aborted has called it exactly once if it called apply_low_limit and
\* not at all otherwise; and once restore_limit has returned, whether its
\* write was taken or not, cleanup_cgroup is the next call and the run exits
\* after it.
C14_RestoreOnce ==
    /\ Count(hist.calls, "restore") <= 1
    /\ pc \in {"Exit", "Aborted"} =>
           Count(hist.calls, "restore") = Count(hist.calls, "apply")
    /\ (Count(hist.calls, "restore") = 1 /\ pc # "Aborted") =>
           \/ pc \in {"Cleanup", "CleanupA"} /\ EndsWith(hist.calls, <<"restore">>)
           \/ pc = "Exit" /\ EndsWith(hist.calls, <<"restore", "cleanup">>)

\* a restore write that was not taken, followed by cleanup and exit
C14_Witness ==
    /\ pc = "Exit"
    /\ hist.calls = <<"setup", "apply", "restore", "cleanup">>
    /\ hist.tempWritten
    /\ ~hist.restoreWritten

\* C15: a run whose poll loop has stopped after s samples has slept
\* exactly s - 1 times.
C15_SleepsBetween == hist.stop # "none" => hist.sleeps = hist.samples - 1

\* the causes of an exit before or during provisioning
EarlyCauses == {"help", "usage", "nopid", "badpid", "noproc", "nocontroller",
                "mkdir", "migrate"}

\* C16: group_dir is empty until the directories are ensured, empty after a
\* failed provisioning (directory creation or pid migration), and non-empty
\* once provisioning has succeeded.  (The positions inside provisioning,
\* between the naming of the directory and the pid write, are left free.)
C16_GroupPathIff ==
    /\ Rank(pc) <= 3 => ctx.group_dir = ""
    /\ (pc = "Exit" /\ hist.cause \in EarlyCauses) => ctx.group_dir = ""
    /\ (Rank(pc) >= 6 /\ hist.cause \notin EarlyCauses) => ctx.group_dir # ""

\* C17: backup_limit and had_backup change only in the step of
\* setup_cgroup_for_pid that reads the limit file, which a run takes once,
\* starting from the zeroed context, before it has called apply_low_limit or
\* restore_limit; no later step changes them.
C17_OriginalOnce ==
    /\ [](Rank(pc) <= 4 => (ctx.backup_limit = <<>> /\ ctx.had_backup = 0))
    /\ [][(ctx'.backup_limit # ctx.backup_limit \/ ctx'.had_backup # ctx.had_backup)
             => /\ pc = "SetupBackup"
                /\ pc' = "SetupMigrate"
                /\ Count(hist.calls, "apply") = 0
                /\ Count(hist.calls, "restore") = 0
                /\ ~hist.tempWritten]_vars

\* a run that captured an administrator's ceiling, applied its own and
\* restored, the captured text being the same at the end
C17_Witness ==
    /\ pc = "Exit"
    /\ ctx.had_backup = 1
    /\ ctx.backup_limit = ToDecimal(4194304)
    /\ hist.tempWritten
    /\ hist.restoreWritten
    /\ hist.samples >= 2

\* C19: once the poll loop is over the warning has been emitted exactly when
\* the loop ended TimedOut with quiet off; a TimedOut run has taken max_iter
\* samples, and when it is over it has called restore_limit then
\* cleanup_cgroup and exited 0.
C19_TimeoutWarning ==
    /\ (Rank(pc) >= 8 /\ pc # "Killed") =>
           (hist.warned <=> (hist.stop = "TimedOut" /\ cfg.quiet = 0))
    /\ hist.stop = "TimedOut" => hist.samples = cfg.max_iter
    /\ (hist.stop = "TimedOut" /\ pc \in {"Exit", "Aborted"}) =>
           /\ pc = "Exit"
           /\ status = 0
           /\ EndsWith(hist.calls, <<"restore", "cleanup">>)

\* What holds of the warning on every run, and of a TimedOut run that does
\* not take the v1 fallback of restore_limit.
WarningBarOverflow ==
    /\ (Rank(pc) >= 8 /\ pc # "Killed") =>
           (hist.warned <=> (hist.stop = "TimedOut" /\ cfg.quiet = 0))
    /\ hist.stop = "TimedOut" => hist.samples = cfg.max_iter
    /\ ~Overflowed => C19_TimeoutWarning

\* C20: a target is a member of no group but the one of the run; no step
\* ends the membership of a target that is alive; and cleanup_cgroup of a
\* group whose member is alive fails with EBUSY and leaves the directory,
\* with the target in it, as it was, the run exiting right after.
C20_MemberPersists ==
    /\ [](\A g \in GroupDirs : fs.members[g] => g = ctx.group_dir)
    /\ [][/\ \A g \in GroupDirs :
                (fs.members[g] /\ ~fs'.members[g]) => target # "alive"
          /\ (pc \in {"Cleanup", "CleanupA"} /\ pc' = "Exit"
                 /\ target = "alive" /\ fs.members[ctx.group_dir])
              => /\ hist'.rmdir = "EBUSY"
                 /\ fs' = fs
                 /\ fs'.kind[ctx.group_dir] = "dir"
                 /\ fs'.members[ctx.group_dir]]_vars

\* the run has exited and left its group, with the live target in it
C20_Witness ==
    /\ pc = "Exit"
    /\ status = 0
    /\ target = "alive"
    /\ hist.rmdir = "EBUSY"
    /\ fs.kind[ctx.group_dir] = "dir"
    /\ fs.members[ctx.group_dir]

\* the text of the temporary ceiling as a run captures it
TempCaptured == rtrim(LimitText(DefaultLimitMb))

\* C18: with two invocations against the same pid, the directory step of
\* either succeeds whenever the three directories are there after it,
\* whoever made them; the backup step of either captures the text the limit
\* file holds at that moment, whoever wrote it; and when both have exited
\* with their restore writes taken and the limit file holds the temporary
\* ceiling, one of them had captured that ceiling as its original.
C18_TwoRuns ==
    /\ []((/\ pc = "Exit" /\ peer.pc = "Exit"
           /\ hist.restoreWritten /\ peer.restored
           /\ LimitReadable /\ LimitContent = LimitText(DefaultLimitMb))
          => (ctx.backup_limit = TempCaptured \/ peer.ctx.backup_limit = TempCaptured))
    /\ [][/\ (pc = "SetupDirs" /\ pc' # pc
                 /\ \A p \in SetupPaths(ctx.ver) : fs'.kind[p] = "dir")
              => pc' = "SetupBackup"
          /\ (peer.pc = "SetupDirs" /\ peer'.pc # peer.pc
                 /\ \A p \in SetupPaths(peer.ctx.ver) : fs'.kind[p] = "dir")
              => peer'.pc = "SetupBackup"
          /\ (pc = "SetupBackup" /\ ctx'.backup_limit # <<>>)
              => ctx'.backup_limit = rtrim(fs.limit[ctx.group_dir])
          /\ (peer.pc = "SetupBackup" /\ peer'.ctx.backup_limit # <<>>)
              => peer'.ctx.backup_limit = rtrim(fs.limit[peer.ctx.group_dir])]_vars

\* the interleaving of the claim: the second invocation captured the
\* kernel's default, the first captured the second's temporary ceiling and
\* wrote it back last; both have exited and the limit file holds it
C18_Witness ==
    /\ pc = "Exit"
    /\ peer.pc = "Exit"
    /\ hist.restoreWritten
    /\ peer.restored
    /\ peer.ctx.backup_limit = rtrim(KernelDefaultLimit(ctx.ver))
    /\ ctx.backup_limit = TempCaptured
    /\ LimitReadable
    /\ LimitContent = LimitText(DefaultLimitMb)

\* C21: a sample taken while the target is a zombie (its status file opens
\* and has no VmRSS line) gives rss_kb = 0 and ends the loop Converged, not
\* ProcessVanished, the target RSS being at least 1.
C21_ZombieConverges ==
    /\ [](cfg.target_rss_kb >= 1)
    /\ [][(pc = "Poll" /\ target = "zombie" /\ hist'.samples = hist.samples + 1)
             => /\ mi'.rss_kb = 0
                /\ mi'.swap_kb = 0
                /\ done' = 1
                /\ pc' = "Restore"
                /\ hist'.stop = "Converged"]_vars

\* a run that stopped Converged on the sample of a zombie, after a sample
\* of the live target that was above the target RSS
C21_Witness ==
    /\ pc = "Exit"
    /\ target = "zombie"
    /\ hist.stop = "Converged"
    /\ hist.samples = 2
    /\ mi.rss_kb = 0

\* the text of buf read back as a number of bytes
CeilingBytes == strtol_long(cfg.buf)

\* C22: once the options are validated, apply_low_limit produces exactly the
\* decimal text of limit_mb * 1048576 and a newline: the number is positive,
\* the text is its decimal form, and dividing it by 1024 twice gives limit_mb
\* back without remainder, which no product that left 64 bits can do
C22_PositiveCeiling ==
    pc # "Start" =>
        /\ pc = "Applied"
        /\ WPositive(cfg.limit_mb)
        /\ WPositive(CeilingBytes)
        /\ cfg.buf = WToDecimal(CeilingBytes) \o <<"\n">>
        /\ WDiv(CeilingBytes, 1024).r = 0
        /\ WDiv(WDiv(CeilingBytes, 1024).q, 1024).r = 0
        /\ WDiv(WDiv(CeilingBytes, 1024).q, 1024).q = cfg.limit_mb

\* the positions of option o among the options taken so far
Given(o) == {i \in 1..iter : argv.opts[i].o = o}

\* the argument of the last option o taken
LastGiven(o) == argv.opts[CHOOSE i \in Given(o) : \A j \in Given(o) : j <= i].a

\* a positive number written in digits only
PositiveNumeral(t) == t # <<>> /\ t[1] # "0" /\ \A i \in 1..Len(t) : IsDigit(t[i])

\* zero, a negative number, or a text that does not start a number
NotPositive(t) ==
    \/ t = <<>>
    \/ t[1] = "-"
    \/ ~IsDigit(t[1])
    \/ \A i \in 1..Len(t) : t[i] \in {"0", "."}

\* C23: after the options are validated limit_mb, target_rss_kb and max_iter
\* are at least 1 and the interval is positive; an option that is omitted,
\* zero, negative or not a number leaves the default 8, 16384, 60 or 1.0, and
\* every positive value is kept as it was written
C23_ValidatedOptions ==
    pc # "Start" =>
        /\ WPositive(cfg.limit_mb) /\ WPositive(cfg.target_rss_kb)
        /\ cfg.max_iter >= 1 /\ cfg.interval > 0
        /\ IF Given("m") = {} \/ NotPositive(LastGiven("m"))
           THEN cfg.limit_mb = WNat(DefaultLimitMb)
           ELSE PositiveNumeral(LastGiven("m")) => WToDecimal(cfg.limit_mb) = LastGiven("m")
        /\ IF Given("r") = {} \/ NotPositive(LastGiven("r"))
           THEN cfg.target_rss_kb = WNat(DefaultTargetRssKb)
           ELSE PositiveNumeral(LastGiven("r"))
                    => WToDecimal(cfg.target_rss_kb) = LastGiven("r")
        /\ IF Given("n") = {} \/ NotPositive(LastGiven("n"))
           THEN cfg.max_iter = DefaultMaxIter
           ELSE PositiveNumeral(LastGiven("n"))
                    => WToDecimal(strtol_long(LastGiven("n"))) = LastGiven("n")
                       /\ strtol_long(LastGiven("n")) = WNat(cfg.max_iter)
        /\ IF Given("i") = {} \/ NotPositive(LastGiven("i"))
           THEN cfg.interval = DefaultIntervalMs
           ELSE cfg.interval = AtofMs(LastGiven("i"))

\* the only step where ctx.ver is given a value other than the one it has
Detecting == pc = "SetupDetect"

\* C24 as stated: detection gives v2 whenever the marker file exists, v1 when
\* only the memory directory exists and none otherwise, without touching the
\* filesystem, and no later step changes the version
C24_ByDirectory ==
    /\ [][Detecting =>
            /\ fs' = fs
            /\ ctx'.ver = IF fs.marker THEN CGROUP_V2
                          ELSE IF fs.kind[MemoryRoot] = "dir" THEN CGROUP_V1
                          ELSE CGROUP_NONE]_vars
    /\ [][~Detecting => ctx'.ver = ctx.ver]_vars

\* C24 amended: v1 is detected when the marker file is missing and the path
\* /sys/fs/cgroup/memory exists, whatever kind of file it is
C24_ByExistence ==
    /\ [][Detecting =>
            /\ fs' = fs
            /\ ctx'.ver = IF fs.marker THEN CGROUP_V2
                          ELSE IF fs.kind[MemoryRoot] \in {"dir", "file"} THEN CGROUP_V1
                          ELSE CGROUP_NONE]_vars
    /\ [][~Detecting => ctx'.ver = ctx.ver]_vars

\* a finished run on a host with both the marker and the v1 directory
C24_Witness ==
    /\ fs.marker /\ fs.kind[MemoryRoot] = "dir"
    /\ pc = "Exit"
    /\ ctx.ver = CGROUP_V2
    /\ Count(hist.calls, "cleanup") = 1

\* the program has a step to take: the loop takes a sample, or another step
\* of Controller is enabled
CanStep ==
    \/ pc = "Poll" /\ LoopTest(iter, cfg.max_iter)
    \/ ENABLED (\/ ParseArgs \/ CheckProc \/ SetupDetect \/ SetupDirs \/ SetupBackup
                \/ SetupMigrate \/ ApplyLowLimit \/ Sleep \/ PollEnd \/ RestoreLimit
                \/ CleanupCgroup)

\* C25: a run that is not killed never stops before the end of main: until
\* it has returned from main there is a step of the program to take, and it
\* has taken at most max_iter samples
C25_Terminates ==
    /\ pc = "Exit" \/ CanStep
    /\ hist.samples <= cfg.max_iter

\* the run failed in detection or in provisioning: main was told so, or the
\* kernel refused the pid written to the procs file
SetupFailed ==
    \/ hist.cause \in {"nocontroller", "mkdir", "migrate"}
    \/ "migrate" \in hist.rejected

\* C26: a run that failed in detection, directory creation or pid migration
\* has called setup only: it has not written the limit file, has not called
\* apply_low_limit, has taken no sample, and ends by exit with status 1
C26_NothingToRestore ==
    SetupFailed =>
        /\ hist.calls = <<"setup">>
        /\ hist.samples = 0
        /\ ~hist.tempWritten /\ ~hist.restoreWritten
        /\ Ended => (pc = "Exit" /\ status = 1)

====
